---------------------------- MODULE Spec2Model ----------------------------
(***************************************************************************)
(* A model of src/src/intfloat.rs: the IntFloat value type (an isize       *)
(* significand `base` and an isize scale `pow`), its operators, its        *)
(* comparisons, its hash input, its conversions and its rendering.         *)
(*                                                                         *)
(* A session draws two operands a and b (or a text and a radix), then      *)
(* either applies a chain of at most MaxOps arithmetic operators to a,     *)
(* each with b as right-hand operand, or evaluates one query.              *)
(*                                                                         *)
(* All values of the model stay far below the isize range, so no integer   *)
(* operation of the model overflows; the guards Fits keep it that way.     *)
(***************************************************************************)
EXTENDS Integers, Sequences, FiniteSets

VARIABLES
    a,        \* the left operand, as drawn
    b,        \* the right operand of every operator
    text,     \* the text handed to from_str_radix
    radix,    \* its radix
    cur,      \* the value the chain has reached (the receiver of += and -=)
    hist,     \* the operators applied to a so far
    status,   \* "ok", or "panic" once an operation has panicked
    lastExp,  \* the exponent last handed to isize::pow, before its cast
    out       \* the result of the query evaluated, if any

vars == <<a, b, text, radix, cur, hist, status, lastExp, out>>

---------------------------------------------------------------------------
(* Bounds of the model. *)

\* Significands drawn: the digits up to MaxDigit and their tenfolds.
MaxDigit == 3
\* Scales drawn: -MaxPow .. MaxPow.
MaxPow == 1
\* Length of a chain of arithmetic operators.
MaxOps == 2
\* A chain goes on only from a value within these magnitudes.
MaxMag == 10000
MaxScale == 2
\* Items summed.
MaxLen == 2
\* Characters of a parsed text.
MaxStrLen == 2

---------------------------------------------------------------------------
(* Integer helpers. *)

Abs(n) == IF n < 0 THEN -n ELSE n

\* Rust's `/` on isize: the quotient truncated toward zero.
TruncDiv(x, y) ==
    IF (x >= 0) = (y >= 0) THEN Abs(x) \div Abs(y) ELSE -(Abs(x) \div Abs(y))

\* `isize::pow(10, e as u32)`.  A negative e would be cast to a u32 of at
\* least 2^32 - |e|, and 10 to that power is 0 modulo 2^64 (the wrapping
\* result; a build with overflow checks panics instead).
IsizePow10(e) == IF e < 0 THEN 0 ELSE 10 ^ e

---------------------------------------------------------------------------
(* The value type and its constructors. *)

new(base, pow) == [base |-> base, pow |-> pow]

zero == [base |-> 0, pow |-> 0]

is_zero(self) == self.base = 0

one == [base |-> 1, pow |-> 0]

---------------------------------------------------------------------------
(* Arithmetic. *)

\* The exponent expression `add` hands to isize::pow, before its cast.
AddExp(self, rhs) ==
    IF rhs.pow > self.pow THEN rhs.pow - self.pow ELSE self.pow - rhs.pow

\* add without its first branch: the right operand is always the one
\* rescaled, also when its scale is the larger one.
MutAdd(self, rhs) ==
    [base |-> rhs.base * IsizePow10(self.pow - rhs.pow) + self.base,
     pow |-> self.pow]

add(self, rhs) ==
    IF rhs.pow > self.pow
    THEN [base |-> self.base * IsizePow10(rhs.pow - self.pow) + rhs.base,
          pow |-> rhs.pow]
    ELSE [base |-> rhs.base * IsizePow10(self.pow - rhs.pow) + self.base,
          pow |-> self.pow]

mul(self, rhs) ==
    [base |-> self.base * rhs.base, pow |-> self.pow + rhs.pow]

\* sub that does not negate the right operand.
MutSub(self, rhs) == add(self, rhs)

sub(self, rhs) ==
    LET new_rhs == [base |-> -rhs.base, pow |-> rhs.pow]
    IN  add(self, new_rhs)

\* div that adds the scales, as mul does.
MutDiv(self, rhs) ==
    [base |-> TruncDiv(self.base, rhs.base), pow |-> self.pow + rhs.pow]

\* Defined for rhs.base # 0; Rust panics on a zero divisor (see Div).
div(self, rhs) ==
    [base |-> TruncDiv(self.base, rhs.base), pow |-> self.pow - rhs.pow]

\* rem that subtracts the quotient, not the quotient times rhs.
MutRem(self, rhs) == sub(self, div(self, rhs))

rem(self, rhs) == sub(self, mul(div(self, rhs), rhs))

\* `self += rhs`: the sum is computed first, then both fields are stored.
add_assign(self, rhs) ==
    LET new_ == add(self, rhs)
    IN  [self EXCEPT !.pow = new_.pow, !.base = new_.base]

\* `self -= rhs`
sub_assign(self, rhs) ==
    LET new_ == sub(self, rhs)
    IN  [self EXCEPT !.pow = new_.pow, !.base = new_.base]

\* Sum::sum: `this` starts as one() and every item is added with +=.
RECURSIVE SumLoop(_, _)
SumLoop(this, iter) ==
    IF iter = <<>> THEN this
    ELSE SumLoop(add_assign(this, Head(iter)), Tail(iter))

\* sum that starts from zero().
MutSum(iter) == SumLoop(zero, iter)

sum(iter) == SumLoop(one, iter)

---------------------------------------------------------------------------
(* Comparison and hashing. *)

\* eq as #[derive(PartialEq)] would compare: field by field.
MutEq(self, other) == self.base = other.base /\ self.pow = other.pow

eq(self, other) ==
    IF other.pow > self.pow
    THEN other.base = self.base * IsizePow10(other.pow - self.pow)
    ELSE self.base = other.base * IsizePow10(self.pow - other.pow)

\* isize's own ordering.
CmpInt(x, y) == IF x < y THEN "Less" ELSE IF x > y THEN "Greater" ELSE "Equal"

\* #[derive(PartialOrd)]: the fields are compared in declaration order,
\* base first and pow only when the bases are equal.
partial_cmp(self, other) ==
    IF CmpInt(self.base, other.base) # "Equal"
    THEN CmpInt(self.base, other.base)
    ELSE CmpInt(self.pow, other.pow)

\* hash that feeds the significand alone to the hasher.
MutHash(self) == <<self.base>>

\* #[derive(Hash)]: the words fed to the hasher, base and then pow.
hash(self) == <<self.base, self.pow>>

---------------------------------------------------------------------------
(* Binary32 floating point: a value is (-1)^neg * m * 2^e, with m = 0 or   *)
(* F32Half <= m < F32Top.  The exponent stays far inside f32's range in    *)
(* this model, so neither overflow nor subnormals are modelled.            *)

F32Top == 2 ^ 24

F32Half == 2 ^ 23

Limb == 2 ^ 12

F32(neg, m, e) == [neg |-> neg, m |-> m, e |-> e]

RECURSIVE BitLen(_)
BitLen(n) == IF n = 0 THEN 0 ELSE 1 + BitLen(n \div 2)

\* n / 2^s rounded to the nearest integer, ties to even.
RoundShift(n, s) ==
    IF s = 0 THEN n
    ELSE LET q == n \div (2 ^ s)
             r == n % (2 ^ s)
             half == 2 ^ (s - 1)
         IN  IF r > half \/ (r = half /\ q % 2 = 1) THEN q + 1 ELSE q

\* The f32 nearest to (-1)^neg * n * 2^e, for a natural n below 2^31.
NormF32(neg, n, e) ==
    IF n = 0 THEN F32(neg, 0, 0)
    ELSE IF n >= F32Top
    THEN LET s == BitLen(n) - 24
             q == RoundShift(n, s)
         IN  IF q = F32Top THEN F32(neg, F32Half, e + s + 1)
                           ELSE F32(neg, q, e + s)
    ELSE LET s == 24 - BitLen(n)
         IN  F32(neg, n * (2 ^ s), e - s)

\* `n as f32`
I2F32(n) == NormF32(n < 0, Abs(n), 0)

\* Long division: (m + r/d) * 2^e is the quotient so far; bits are added
\* until m has 24 of them, and the rest rounds to nearest, ties to even.
RECURSIVE DivBits(_, _, _, _)
DivBits(m, r, d, e) ==
    IF m >= F32Half
    THEN LET q == IF 2 * r > d \/ (2 * r = d /\ m % 2 = 1) THEN m + 1 ELSE m
         IN  IF q = F32Top THEN F32(FALSE, F32Half, e + 1)
                           ELSE F32(FALSE, q, e)
    ELSE LET bit == IF 2 * r >= d THEN 1 ELSE 0
         IN  DivBits(2 * m + bit, 2 * r - bit * d, d, e - 1)

\* The f32 nearest to n / d, for naturals n < d * F32Top and d > 0.
DecToF32(n, d) ==
    IF n = 0 THEN F32(FALSE, 0, 0) ELSE DivBits(n \div d, n % d, d, 0)

\* `10_f32.pow(x as f32)` for an integer x: powf returns the f32 nearest to
\* 10^x (exactly 10^x for 0 <= x <= 10).
Pow10F32(x) ==
    IF x >= 0 THEN NormF32(FALSE, 10 ^ x, 0) ELSE DecToF32(1, 10 ^ (-x))

\* `x * y` on f32: the exact 48-bit product of the two 24-bit mantissas, in
\* 12-bit limbs, rounded to 24 bits (nearest, ties to even).
MulF32(x, y) ==
    IF x.m = 0 \/ y.m = 0 THEN F32(x.neg # y.neg, 0, 0)
    ELSE LET xh == x.m \div Limb
             xl == x.m % Limb
             yh == y.m \div Limb
             yl == y.m % Limb
             mid == xh * yl + xl * yh
             low == (mid % Limb) * Limb + xl * yl
             hi == xh * yh + (mid \div Limb) + (low \div F32Top)
             lo == low % F32Top
             wide == hi >= F32Half
             q0 == IF wide THEN hi ELSE 2 * hi + (lo \div F32Half)
             r == IF wide THEN lo ELSE lo % F32Half
             half == IF wide THEN F32Half ELSE F32Half \div 2
             q == IF r > half \/ (r = half /\ q0 % 2 = 1) THEN q0 + 1 ELSE q0
             e == x.e + y.e + (IF wide THEN 24 ELSE 23)
         IN  IF q = F32Top THEN F32(x.neg # y.neg, F32Half, e + 1)
                           ELSE F32(x.neg # y.neg, q, e)

\* Whether the f32 x is a whole number.
F32IsInteger(x) ==
    \/ x.m = 0
    \/ x.e >= 0
    \/ (-x.e < 24 /\ x.m % (2 ^ (-x.e)) = 0)

\* The integer part of |x|, for |x| < 2^24.
F32Trunc(x) == IF x.e >= 0 THEN x.m * (2 ^ x.e)
               ELSE IF -x.e >= 24 THEN 0 ELSE x.m \div (2 ^ (-x.e))

---------------------------------------------------------------------------
(* Conversions and rendering.  A string is a sequence of characters. *)

\* `(self.base as f64 * 10_f64.pow(-self.pow as f64)) as i64`.  For pow <= 0
\* the f64 product of the two integers is exact; for pow > 0 the truncated
\* f64 product is the truncated quotient (for every |base| <= 200000 and
\* pow <= 6, far beyond the values of this model).
to_i64(self) ==
    IF self.pow <= 0 THEN self.base * (10 ^ (-self.pow))
    ELSE TruncDiv(self.base, 10 ^ self.pow)

\* `self.base as f32 * 10_f32.pow(-self.pow as f32)`
to_f32(self) == MulF32(I2F32(self.base), Pow10F32(-self.pow))

DecDigits == <<"0", "1", "2", "3", "4", "5", "6", "7", "8", "9">>

RECURSIVE NatToString(_)
NatToString(n) ==
    IF n < 10 THEN <<DecDigits[n + 1]>>
    ELSE Append(NatToString(n \div 10), DecDigits[(n % 10) + 1])

\* i64's Display: a minus sign when negative, then the decimal digits.
I64ToString(n) ==
    IF n < 0 THEN <<"-">> \o NatToString(-n) ELSE NatToString(n)

\* f32's Display: a whole number is printed as its digits alone ("5", never
\* "5.0"); any other value as its integer part, a point and the shortest
\* run of fractional digits that reads back as the same f32.  That run is
\* not computed here: "#" stands for it (one or more digits).
F32ToString(x) ==
    (IF x.neg THEN <<"-">> ELSE <<>>)
    \o NatToString(F32Trunc(x))
    \o (IF F32IsInteger(x) THEN <<>> ELSE <<".", "#">>)

\* print that always takes the integer branch.
MutPrint(self) == I64ToString(to_i64(self))

print(self) ==
    IF self.pow >= 1 THEN F32ToString(to_f32(self))
    ELSE I64ToString(to_i64(self))

---------------------------------------------------------------------------
(* Parsing: isize::from_str_radix, which Num::from_str_radix calls. *)

Digits36 ==
    <<"0", "1", "2", "3", "4", "5", "6", "7", "8", "9", "a", "b", "c", "d",
      "e", "f", "g", "h", "i", "j", "k", "l", "m", "n", "o", "p", "q", "r",
      "s", "t", "u", "v", "w", "x", "y", "z">>

Upper36 ==
    <<"0", "1", "2", "3", "4", "5", "6", "7", "8", "9", "A", "B", "C", "D",
      "E", "F", "G", "H", "I", "J", "K", "L", "M", "N", "O", "P", "Q", "R",
      "S", "T", "U", "V", "W", "X", "Y", "Z">>

\* char::to_digit(radix): the digit's value, or -1 when c is no digit of
\* the radix.  Letters count in either case.
ToDigit(c, rdx) ==
    LET hits == {i \in 1 .. rdx : Digits36[i] = c \/ Upper36[i] = c}
    IN  IF hits = {} THEN -1 ELSE (CHOOSE i \in hits : TRUE) - 1

\* The digits are folded left to right; a character that is no digit ends
\* the parse with InvalidDigit.  (An accumulator leaving the isize range
\* would end it with PosOverflow or NegOverflow; texts of this model are
\* too short for that.)
RECURSIVE ParseDigits(_, _, _, _)
ParseDigits(digits, rdx, positive, acc) ==
    IF digits = <<>> THEN [kind |-> "Ok", value |-> acc]
    ELSE LET d == ToDigit(Head(digits), rdx)
         IN  IF d < 0 THEN [kind |-> "Err", err |-> "InvalidDigit"]
             ELSE ParseDigits(Tail(digits), rdx, positive,
                              IF positive THEN acc * rdx + d
                                          ELSE acc * rdx - d)

\* isize::from_str_radix(src, radix), for a radix in 2 ..= 36.
IsizeFromStrRadix(src, rdx) ==
    IF src = <<>> THEN [kind |-> "Err", err |-> "Empty"]
    ELSE IF src = <<"+">> \/ src = <<"-">>
    THEN [kind |-> "Err", err |-> "InvalidDigit"]
    ELSE IF Head(src) = "+" THEN ParseDigits(Tail(src), rdx, TRUE, 0)
    ELSE IF Head(src) = "-" THEN ParseDigits(Tail(src), rdx, FALSE, 0)
    ELSE ParseDigits(src, rdx, TRUE, 0)

\* Whether isize::from_str_radix accepts the radix; it panics otherwise.
RadixOk(rdx) == rdx >= 2 /\ rdx <= 36

from_str_radix(str, rdx) ==
    LET this_base == IsizeFromStrRadix(str, rdx)
    IN  IF this_base.kind = "Err" THEN this_base
        ELSE [kind |-> "Ok", value |-> [base |-> this_base.value, pow |-> 0]]

---------------------------------------------------------------------------
(* Inputs. *)

Pows == -MaxPow .. MaxPow

\* The digits and their tenfolds: values with several raw pairs in range.
Bases == {d * m : d \in -MaxDigit .. MaxDigit, m \in {1, 10}}

Values == {new(s, p) : s \in Bases, p \in Pows}

\* A value the chain may go on from.
Fits(v) == Abs(v.base) <= MaxMag /\ Abs(v.pow) <= MaxScale

\* Every sequence over S of length at most n.
SeqsUpTo(S, n) == UNION {[1 .. k -> S] : k \in 0 .. n}

Chars == {"-", "+", "1", "7", "a", "F", "."}

Texts == SeqsUpTo(Chars, MaxStrLen)

Radixes == {1, 10, 16, 37}

NoOut == [op |-> "none"]

---------------------------------------------------------------------------
(* The state machine. *)

Init ==
    /\ \/ a \in Values /\ b \in Values /\ text = <<>> /\ radix = 10
       \/ a = zero /\ b = zero /\ text \in Texts /\ radix \in Radixes
    /\ cur = a
    /\ hist = <<>>
    /\ status = "ok"
    /\ lastExp = 0
    /\ out = NoOut

CanStep ==
    /\ status = "ok"
    /\ out = NoOut
    /\ Len(hist) < MaxOps
    /\ Fits(cur)

\* What a chain step leaves alone.
StepFrame == UNCHANGED <<a, b, text, radix, out>>

\* `self + rhs`
Add ==
    /\ CanStep
    /\ cur' = add(cur, b)
    /\ lastExp' = AddExp(cur, b)
    /\ hist' = Append(hist, "add")
    /\ status' = "ok"
    /\ StepFrame

\* `self += rhs`
AddAssign ==
    /\ CanStep
    /\ cur' = add_assign(cur, b)
    /\ lastExp' = AddExp(cur, b)
    /\ hist' = Append(hist, "add_assign")
    /\ status' = "ok"
    /\ StepFrame

\* `self - rhs`
Sub ==
    /\ CanStep
    /\ cur' = sub(cur, b)
    /\ lastExp' = AddExp(cur, b)
    /\ hist' = Append(hist, "sub")
    /\ status' = "ok"
    /\ StepFrame

\* `self -= rhs`
SubAssign ==
    /\ CanStep
    /\ cur' = sub_assign(cur, b)
    /\ lastExp' = AddExp(cur, b)
    /\ hist' = Append(hist, "sub_assign")
    /\ status' = "ok"
    /\ StepFrame

\* `self * rhs`
Mul ==
    /\ CanStep
    /\ cur' = mul(cur, b)
    /\ hist' = Append(hist, "mul")
    /\ status' = "ok"
    /\ UNCHANGED lastExp
    /\ StepFrame

\* Div as a checked division would behave: a zero divisor leaves the
\* receiver as it was and nothing panics.
MutDivAction ==
    /\ CanStep
    /\ hist' = Append(hist, "div")
    /\ status' = "ok"
    /\ cur' = IF b.base = 0 THEN cur ELSE div(cur, b)
    /\ UNCHANGED lastExp
    /\ StepFrame

\* `self / rhs`: isize's `/` panics ("attempt to divide by zero") when
\* rhs.base is 0, and no value is returned.
Div ==
    /\ CanStep
    /\ hist' = Append(hist, "div")
    /\ IF b.base = 0
       THEN status' = "panic" /\ cur' = cur
       ELSE status' = "ok" /\ cur' = div(cur, b)
    /\ UNCHANGED lastExp
    /\ StepFrame

\* `self % rhs`: its first call is self.div(rhs), which panics as Div does.
Rem ==
    /\ CanStep
    /\ hist' = Append(hist, "rem")
    /\ IF b.base = 0
       THEN status' = "panic" /\ cur' = cur /\ UNCHANGED lastExp
       ELSE /\ status' = "ok"
            /\ cur' = rem(cur, b)
            /\ lastExp' = AddExp(cur, mul(div(cur, b), b))
    /\ StepFrame

\* A query is evaluated on the operands as drawn.
CanQuery ==
    /\ status = "ok"
    /\ out = NoOut
    /\ hist = <<>>

QueryFrame == UNCHANGED <<a, b, text, radix, cur, hist>>

\* `lhs == rhs`, in either order of the operands.
Eq ==
    /\ CanQuery
    /\ \E p \in {<<a, b>>, <<b, a>>} :
          /\ out' = [op |-> "eq", lhs |-> p[1], rhs |-> p[2],
                     val |-> eq(p[1], p[2])]
          /\ lastExp' = AddExp(p[1], p[2])
    /\ status' = "ok"
    /\ QueryFrame

\* `lhs.partial_cmp(&rhs)`, in either order of the operands.
PartialCmp ==
    /\ CanQuery
    /\ \E p \in {<<a, b>>, <<b, a>>} :
          out' = [op |-> "partial_cmp", lhs |-> p[1], rhs |-> p[2],
                  val |-> partial_cmp(p[1], p[2])]
    /\ status' = "ok"
    /\ UNCHANGED lastExp
    /\ QueryFrame

\* Both operands are hashed (as when both are inserted in a HashSet).
Hash ==
    /\ CanQuery
    /\ out' = [op |-> "hash", lhs |-> a, rhs |-> b,
               val |-> <<hash(a), hash(b)>>]
    /\ status' = "ok"
    /\ UNCHANGED lastExp
    /\ QueryFrame

\* `format!("{}", a)`: Display::fmt writes a.print().
Display ==
    /\ CanQuery
    /\ out' = [op |-> "print", arg |-> a, val |-> print(a)]
    /\ status' = "ok"
    /\ UNCHANGED lastExp
    /\ QueryFrame

\* `items.into_iter().sum()`, the items drawn among the operands.
Sum ==
    /\ CanQuery
    /\ \E items \in SeqsUpTo({a, b}, MaxLen) :
          out' = [op |-> "sum", items |-> items, val |-> sum(items)]
    /\ status' = "ok"
    /\ UNCHANGED lastExp
    /\ QueryFrame

\* `IntFloat::from_str_radix(text, radix)`
FromStrRadix ==
    /\ CanQuery
    /\ IF RadixOk(radix)
       THEN /\ status' = "ok"
            /\ out' = [op |-> "from_str_radix",
                       val |-> from_str_radix(text, radix)]
       ELSE /\ status' = "panic"
            /\ out' = [op |-> "from_str_radix"]
    /\ UNCHANGED lastExp
    /\ QueryFrame

Next ==
    \/ Add
    \/ AddAssign
    \/ Sub
    \/ SubAssign
    \/ Mul
    \/ Div
    \/ Rem
    \/ Eq
    \/ PartialCmp
    \/ Hash
    \/ Display
    \/ Sum
    \/ FromStrRadix

Spec == Init /\ [][Next]_vars

---------------------------------------------------------------------------
(* Properties.  Their right-hand sides state the arithmetic directly, on    *)
(* the integers, without the operators of the model.                        *)

\* The significand of v rescaled to the scale m >= v.pow.
Aligned(v, m) == v.base * (10 ^ (m - v.pow))

Max(x, y) == IF x > y THEN x ELSE y

Last(s) == s[Len(s)]

HasDot(str) == \E i \in 1 .. Len(str) : str[i] = "."

\* The equalities of test_partial_eq, in both orders.
ExamplesC1 ==
    /\ eq(new(50000, 2), new(500, 0)) /\ eq(new(500, 0), new(50000, 2))
    /\ eq(new(5, -2), new(500, 0)) /\ eq(new(500, 0), new(5, -2))
    /\ eq(new(50000, 2), new(5, -2)) /\ eq(new(5, -2), new(50000, 2))
    /\ ~eq(new(50000, 2), new(50, 0))

\* C1: equality is scale-independent.  `lhs == rhs` is TRUE exactly when the
\* significands, both rescaled to the larger scale, are the same integer; so
\* (s, p) equals (s * 10^k, p + k) for every k >= 0, in either order of the
\* operands, and values with different aligned significands are not equal.
\* (50000,2), (500,0) and (5,-2) are pairwise equal.
InvC1 ==
    /\ out.op = "eq" =>
          LET l == out.lhs
              r == out.rhs
              m == Max(l.pow, r.pow)
          IN  /\ out.val = (Aligned(l, m) = Aligned(r, m))
              /\ \A k \in 0 .. 2 * MaxPow :
                    /\ r = new(l.base * (10 ^ k), l.pow + k) => out.val
                    /\ l = new(r.base * (10 ^ k), r.pow + k) => out.val
    /\ ExamplesC1

\* C1's case: two different raw pairs of one nonzero value compared equal.
WitC1 ==
    /\ out.op = "eq"
    /\ out.val
    /\ out.lhs.pow < out.rhs.pow
    /\ out.lhs.base # 0

\* C2: ordering is by mathematical value.  partial_cmp is the comparison of
\* the two significands rescaled to the larger scale, so it is Equal exactly
\* when the operands are equal.
CexC2 ==
    out.op = "partial_cmp" =>
        LET l == out.lhs
            r == out.rhs
            m == Max(l.pow, r.pow)
        IN  /\ out.val = CmpInt(Aligned(l, m), Aligned(r, m))
            /\ (out.val = "Equal") = eq(l, r)

\* Two equal values whose raw pairs differ.
ExamplesC3 ==
    /\ eq(new(50000, 2), new(500, 0))
    /\ hash(new(50000, 2)) # hash(new(500, 0))

\* C3: the hash input is the raw pair (base, pow) and nothing else: two
\* values have the same hash input exactly when their raw pairs are the
\* same, so equal values of different scales have different hash inputs.
InvC3 ==
    /\ out.op = "hash" =>
          /\ (out.val[1] = out.val[2])
                = (out.lhs.base = out.rhs.base /\ out.lhs.pow = out.rhs.pow)
          /\ out.val[1] = <<out.lhs.base, out.lhs.pow>>
    /\ ExamplesC3

\* C3's case: two equal values whose hash inputs differ.
WitC3 ==
    /\ out.op = "hash"
    /\ eq(out.lhs, out.rhs)
    /\ out.lhs.base # 0
    /\ out.val[1] # out.val[2]

\* The sums of test_add.
ExamplesC4 ==
    /\ add(new(534, 0), new(100, 2)) = new(53500, 2)
    /\ add(new(100, 2), new(534, 0)) = new(53500, 2)
    /\ add(new(534, -2), new(534, -2)) = new(1068, -2)

\* C4: a + b has the larger of the two scales and the sum of the two
\* significands rescaled to it; the exponent handed to the power of ten is
\* never negative; a + b and b + a are the same raw pair.
\* (534,0) + (100,2) is (53500,2).
InvC4 ==
    /\ (hist = <<"add">> /\ status = "ok") =>
          LET m == Max(a.pow, b.pow)
          IN  /\ cur.pow = m
              /\ cur.base = Aligned(a, m) + Aligned(b, m)
              /\ lastExp >= 0
              /\ lastExp = m - (IF a.pow < b.pow THEN a.pow ELSE b.pow)
              /\ cur = add(b, a)
    /\ ExamplesC4

\* C4's case: the left operand, of the smaller scale, was rescaled.
WitC4 ==
    /\ hist = <<"add">>
    /\ a.pow < b.pow
    /\ a.base # 0
    /\ b.base # 0
    /\ lastExp > 0

\* C5: (a + b) - b is equal to a, and so is x after x += b; x -= b; the
\* difference a - b is the sum of a and (-b.base, b.pow).
InvC5 ==
    /\ (hist = <<"add", "sub">> /\ status = "ok") =>
          /\ eq(cur, a) /\ eq(a, cur)
          /\ Aligned(cur, cur.pow) = Aligned(a, cur.pow)
    /\ (hist = <<"add_assign", "sub_assign">> /\ status = "ok") =>
          /\ eq(cur, a) /\ eq(a, cur)
          /\ Aligned(cur, cur.pow) = Aligned(a, cur.pow)
    /\ (hist = <<"sub">> /\ status = "ok") =>
          LET m == Max(a.pow, b.pow)
          IN  cur = new(Aligned(a, m) - Aligned(b, m), m)

\* C5's case: b of a larger scale was added and subtracted, which leaves
\* another raw pair of a's value.
WitC5 ==
    /\ hist = <<"add", "sub">>
    /\ status = "ok"
    /\ a.pow < b.pow
    /\ a.base # 0
    /\ b.base # 0
    /\ cur # a

\* The remainders of test_rem.
ExamplesC6 ==
    /\ rem(new(250000, -4), new(499, -2)) = new(1, -4)
    /\ rem(new(250000, 4), new(499, 2)) = new(1, 4)

\* C6: for b.base # 0, a is equal to (a / b) * b + a % b, where a % b is
\* a - (a / b) * b with the quotient truncated toward zero.
\* (250000,-4) % (499,-2) is (1,-4).
InvC6 ==
    /\ (hist = <<"rem">> /\ status = "ok") =>
          LET q == cur.base
              back == add(mul(div(a, b), b), cur)
          IN  /\ eq(a, back) /\ eq(back, a)
              /\ back.pow = a.pow /\ back.base = a.base
              /\ cur.pow = a.pow
              /\ Abs(cur.base) < Abs(b.base)
              /\ cur.base * a.base >= 0
              /\ \E k \in -Abs(a.base) .. Abs(a.base) :
                    a.base = k * b.base + cur.base
    /\ ExamplesC6

\* C6's case: a negative dividend that b does not divide, at another scale.
WitC6 ==
    /\ hist = <<"rem">>
    /\ status = "ok"
    /\ a.base < 0
    /\ cur.base # 0
    /\ cur.base # a.base
    /\ a.pow # b.pow

\* The quotient and the product of test_div and test_mul.
ExamplesC7 ==
    /\ div(new(250000, -4), new(500, -2)) = new(500, -2)
    /\ mul(new(500, -2), new(500, -2)) = new(250000, -4)

\* C7: for b.base # 0, a / b is (a.base / b.base truncated toward zero,
\* a.pow - b.pow); a * b is (a.base * b.base, a.pow + b.pow); and
\* (a * b) / b is the raw pair of a.  (250000,-4) / (500,-2) is (500,-2).
InvC7 ==
    /\ (hist = <<"div">> /\ status = "ok") =>
          LET q == cur.base
              r == a.base - q * b.base
          IN  /\ cur.pow = a.pow - b.pow
              /\ Abs(r) < Abs(b.base)
              /\ r * a.base >= 0
    /\ (hist = <<"mul">> /\ status = "ok") =>
          cur = new(a.base * b.base, a.pow + b.pow)
    /\ (hist = <<"mul", "div">> /\ status = "ok") =>
          (cur.base = a.base /\ cur.pow = a.pow)
    /\ ExamplesC7

\* C7's case: a product divided by its second factor, both scales nonzero.
WitC7 ==
    /\ hist = <<"mul", "div">>
    /\ status = "ok"
    /\ a.base < 0
    /\ Abs(b.base) > 1
    /\ a.pow # 0
    /\ b.pow # 0

\* C8 as claimed: print renders a decimal point exactly when the scale is
\* at least 1, whatever the significand.
CexC8 ==
    out.op = "print" => (HasDot(out.val) = (out.arg.pow >= 1))

\* The renderings of test_print, and two whole numbers of scale >= 1.
ExamplesC8 ==
    /\ HasDot(print(new(534, 2)))
    /\ print(new(500, 2)) = <<"5">>
    /\ print(new(0, 1)) = <<"0">>
    /\ print(new(534, 0)) = <<"5", "3", "4">>
    /\ print(new(534, -2)) = <<"5", "3", "4", "0", "0">>

\* C8 as amended: a value of scale <= 0 renders without a decimal point; a
\* value of scale >= 1 renders with one exactly when base * 10^-pow, as
\* computed in f32, is not a whole number - for the scales 1 and 2 (and
\* |base| <= 200000), exactly when base is not a multiple of 10^pow.
\* (534,2) renders with a point; (500,2) renders "5" and (0,1) renders "0".
InvC8 ==
    /\ out.op = "print" =>
          LET v == out.arg
          IN  /\ v.pow <= 0 => ~HasDot(out.val)
              /\ v.pow >= 1 =>
                    (HasDot(out.val) = ~F32IsInteger(to_f32(v)))
              /\ (v.pow \in {1, 2} /\ Abs(v.base) <= 200000) =>
                    (HasDot(out.val) = (v.base % (10 ^ v.pow) # 0))
    /\ ExamplesC8

\* C8's case: a nonzero value of scale >= 1 rendered without a point.
WitC8 ==
    /\ out.op = "print"
    /\ out.arg.pow >= 1
    /\ out.arg.base # 0
    /\ ~HasDot(out.val)

\* one() + v1 + ... + vn, from left to right.
RECURSIVE PlusAll(_, _)
PlusAll(acc, items) ==
    IF items = <<>> THEN acc ELSE PlusAll(add(acc, Head(items)), Tail(items))

RECURSIVE AlignedSum(_, _)
AlignedSum(items, m) ==
    IF items = <<>> THEN 0
    ELSE Aligned(Head(items), m) + AlignedSum(Tail(items), m)

RECURSIVE MaxPowOf(_)
MaxPowOf(items) ==
    IF items = <<>> THEN 0 ELSE Max(Head(items).pow, MaxPowOf(Tail(items)))

\* C9: the sum of v1 .. vn is one() + v1 + ... + vn; its scale is the
\* largest of 0 and the items' scales, its significand 10^scale plus the
\* items' aligned significands; the sum of no items is (1, 0).
InvC9 ==
    out.op = "sum" =>
        LET m == MaxPowOf(out.items)
        IN  /\ out.val = PlusAll(new(1, 0), out.items)
            /\ out.val.pow = m
            /\ out.val.base = (10 ^ m) + AlignedSum(out.items, m)
            /\ out.items = <<>> => (out.val.base = 1 /\ out.val.pow = 0)

\* C9's case: two items of different scales were summed.
WitC9 ==
    /\ out.op = "sum"
    /\ Len(out.items) = 2
    /\ out.items[1].pow > out.items[2].pow
    /\ out.items[1].pow > 0
    /\ out.items[1].base # 0
    /\ out.items[2].base # 0

\* C10 as claimed: every binary operator, applied to any two values, also
\* to a right-hand operand of significand 0, completes and returns a value.
CexC10 ==
    hist # <<>> => status = "ok"

\* An optional sign, then one or more digits of the radix.
IsIntLiteral(str, rdx) ==
    LET digits == IF str # <<>> /\ str[1] \in {"+", "-"} THEN Tail(str)
                  ELSE str
    IN  /\ digits # <<>>
        /\ \A i \in 1 .. Len(digits) :
              \E d \in 1 .. rdx :
                 Digits36[d] = digits[i] \/ Upper36[d] = digits[i]

\* Texts parsed in radix 10 and 16.
ExamplesC10 ==
    /\ from_str_radix(<<"a", "b", "c">>, 10).kind = "Err"
    /\ from_str_radix(<<"1", "2", "3">>, 10)
          = [kind |-> "Ok", value |-> new(123, 0)]
    /\ from_str_radix(<<"-", "f", "F">>, 16)
          = [kind |-> "Ok", value |-> new(-255, 0)]

\* The number an integer literal denotes.
RECURSIVE LiteralDigits(_, _, _)
LiteralDigits(digits, rdx, acc) ==
    IF digits = <<>> THEN acc
    ELSE LET d == CHOOSE i \in 0 .. rdx - 1 :
                     Digits36[i + 1] = Head(digits)
                        \/ Upper36[i + 1] = Head(digits)
         IN  LiteralDigits(Tail(digits), rdx, acc * rdx + d)

LiteralValue(str, rdx) ==
    IF str[1] = "-" THEN -LiteralDigits(Tail(str), rdx, 0)
    ELSE IF str[1] = "+" THEN LiteralDigits(Tail(str), rdx, 0)
    ELSE LiteralDigits(str, rdx, 0)

\* C10 as amended: +, - and * always return a value; / and % return a value
\* exactly when the right-hand significand is not 0, and panic when it is.
\* from_str_radix, for a radix in 2 ..= 36, returns Err for a text that is
\* no integer literal of the radix and Ok of a value of scale 0 otherwise;
\* for any other radix it panics.  No other operation fails.
InvC10 ==
    /\ hist # <<>> =>
          ((status = "panic") = (Last(hist) \in {"div", "rem"} /\ b.base = 0))
    /\ out.op = "from_str_radix" =>
          IF radix >= 2 /\ radix <= 36
          THEN /\ status = "ok"
               /\ (out.val.kind = "Ok") = IsIntLiteral(text, radix)
               /\ out.val.kind = "Ok" =>
                     /\ out.val.value.pow = 0
                     /\ out.val.value.base = LiteralValue(text, radix)
               /\ out.val.kind # "Ok" => out.val.kind = "Err"
          ELSE status = "panic"
    /\ (hist = <<>> /\ out.op # "from_str_radix") => status = "ok"
    /\ ExamplesC10

\* C10's case: a division whose right-hand significand is 0 has panicked.
WitC10 ==
    /\ status = "panic"
    /\ hist = <<"div">>
    /\ a.base # 0
    /\ b.base = 0

===========================================================================
